---- MODULE Spec2Model ----
(***************************************************************************)
(* Model of createHandleOpsCalldata.ts: the ERC-4337 v0.6 UserOperation    *)
(* hash (packUserOpV06, getUserOperationHashV06), the ABI encoding of the  *)
(* handleOps call (encodeAbiParameters / encodeFunctionData as the script  *)
(* uses them) and the script's main pipeline.                              *)
(*                                                                         *)
(* A byte is a record [k, v, pre].  A literal byte is [k |-> "b", v |-> n] *)
(* with n in 0..255.  keccak256 and signMessage are external primitives:   *)
(* their outputs are 32 and 65 symbolic bytes, byte i being [k |-> name,   *)
(* v |-> i], the first byte carrying the preimage in pre, so that the      *)
(* primitive is a collision-free function of its input.                    *)
(***************************************************************************)
EXTENDS Integers, Sequences, FiniteSets, TLC

VARIABLES
    pc,             \* position in main, or in the harness of a pure function
    argv,           \* the parsed flags: [entryPoint, smartAccount, factory]
    entryPoint,     \* Address (20 bytes), <<>> while unassigned
    smartAccount,
    factory,
    userOperation,  \* the UserOperation<"v0.6"> record
    packed,         \* result of packUserOpV06
    hash,           \* result of getUserOperationHashV06
    calldata,       \* result of encodeFunctionData, <<>> while not produced
    stdout,         \* lines written by console.log
    exit,           \* "running", "exit0" (process.exit(0)), "rejected" (main() rejected), "returned"
    error,          \* the error main() rejected with, "" if none
    events,         \* the calls main has made so far, with the operation each one saw
    targetChainId,  \* the chain the caller of the hasher wants the digest bound to
    ops,            \* args[0] of an encodeFunctionData call
    beneficiary,    \* args[1] of an encodeFunctionData call
    data,           \* input of an encodeBytes call
    encoded         \* result of an encodeBytes call

vars == <<pc, argv, entryPoint, smartAccount, factory, userOperation, packed, hash,
          calldata, stdout, exit, error, events, targetChainId, ops, beneficiary,
          data, encoded>>

----------------------------------------------------------------------------
(* Bounds of the model *)

\* byte strings of the hasher's inputs have at most this many bytes
MaxHashLen == 1
\* nonces range over 0..MaxNonce
MaxNonce == 1
\* longest byte string given to encodeBytes
MaxBytesLen == 65
\* longest initCode / callData of an encoded operation (beyond 0, 1 and 32)
MaxFieldLen == 33
\* most operations in one handleOps call
MaxOps == 2

----------------------------------------------------------------------------
(* Bytes and the external primitives *)

B(n) == [k |-> "b", v |-> n, pre |-> <<>>]

Zeros(n) == [i \in 1..n |-> B(0)]

\* viem keccak256: 32 bytes, a collision-free function of the input bytes
keccak256(x) ==
    [i \in 1..32 |-> [k |-> "keccak", v |-> i, pre |-> IF i = 1 THEN <<x>> ELSE <<>>]]

\* viem/accounts signMessage({privateKey, message: {raw}}): a 65-byte signature,
\* a function of the fixed owner key and of the digest
signMessage(raw) ==
    [i \in 1..65 |-> [k |-> "sig", v |-> i, pre |-> IF i = 1 THEN <<raw>> ELSE <<>>]]

\* kakarotChain.id, imported from ./constants
KakarotChainId == 1802203764

----------------------------------------------------------------------------
(* viem encodeAbiParameters, for the types the script uses *)

Pow256(e) == IF e = 0 THEN 1 ELSE IF e = 1 THEN 256 ELSE IF e = 2 THEN 65536 ELSE 16777216

\* numberToHex(n, {size: 32}): 32-byte big-endian; the model's integers are below 2^31
numberToHex32(n) ==
    [i \in 1..32 |-> IF 32 - i > 3 THEN B(0) ELSE B((n \div Pow256(32 - i)) % 256)]

\* padHex(value, {dir: "left"}) to 32 bytes
padLeft32(bytes) == Zeros(32 - Len(bytes)) \o bytes

\* padHex(value, {dir: "right", size})
padRight(bytes, size) == bytes \o Zeros(size - Len(bytes))

CeilDiv32(n) == (n + 31) \div 32

encodeAddress(value) == [dynamic |-> FALSE, encoded |-> padLeft32(value)]

encodeNumber(value) == [dynamic |-> FALSE, encoded |-> numberToHex32(value)]

\* encodeBytes for type bytes32
encodeBytes32(value) == [dynamic |-> FALSE, encoded |-> padRight(value, 32)]

\* encodeBytes without the bytesSize % 32 test: pads a whole word more when the
\* size is already a multiple of 32
encodeBytes_nopadcheck(value) ==
    [dynamic |-> TRUE,
     encoded |-> numberToHex32(Len(value))
                 \o padRight(value, (Len(value) \div 32 + 1) * 32)]

\* encodeBytes for type bytes: length word, then the data right-padded to 32
encodeBytes(value) ==
    LET bytesSize == Len(value)
        value_ == IF bytesSize % 32 # 0
                  THEN padRight(value, CeilDiv32(bytesSize) * 32)
                  ELSE value
    IN [dynamic |-> TRUE, encoded |-> numberToHex32(bytesSize) \o value_]

RECURSIVE SumStatic(_, _)
SumStatic(prepared, i) ==
    IF i > Len(prepared) THEN 0
    ELSE (IF prepared[i].dynamic THEN 32 ELSE Len(prepared[i].encoded))
         + SumStatic(prepared, i + 1)

RECURSIVE EncodeParamsFrom(_, _, _, _, _, _)
EncodeParamsFrom(prepared, i, staticSize, staticParts, dynamicParts, dynamicSize) ==
    IF i > Len(prepared) THEN staticParts \o dynamicParts
    ELSE IF prepared[i].dynamic
         THEN EncodeParamsFrom(prepared, i + 1, staticSize,
                               staticParts \o numberToHex32(staticSize + dynamicSize),
                               dynamicParts \o prepared[i].encoded,
                               dynamicSize + Len(prepared[i].encoded))
         ELSE EncodeParamsFrom(prepared, i + 1, staticSize,
                               staticParts \o prepared[i].encoded,
                               dynamicParts, dynamicSize)

\* encodeParams with the head size counted in words, not in bytes
encodeParams_wordOffsets(prepared) ==
    EncodeParamsFrom(prepared, 1, Len(prepared), <<>>, <<>>, 0)

\* encodeParams: the heads (static encodings, or offsets counted from the start of
\* this encoding), then the tails in order
encodeParams(prepared) ==
    EncodeParamsFrom(prepared, 1, SumStatic(prepared, 1), <<>>, <<>>, 0)

AnyDynamic(prepared) == \E i \in 1..Len(prepared) : prepared[i].dynamic

RECURSIVE ConcatEncoded(_, _)
ConcatEncoded(prepared, i) ==
    IF i > Len(prepared) THEN <<>>
    ELSE prepared[i].encoded \o ConcatEncoded(prepared, i + 1)

RECURSIVE prepareParam(_)

\* prepareParam over a list of parameters
prepareParams(params) == [i \in 1..Len(params) |-> prepareParam(params[i])]

\* encodeTuple: dynamic when a component is
encodeTuple(components) ==
    LET preparedParams == prepareParams(components)
        dynamic == AnyDynamic(preparedParams)
    IN [dynamic |-> dynamic,
        encoded |-> IF dynamic THEN encodeParams(preparedParams)
                    ELSE ConcatEncoded(preparedParams, 1)]

\* encodeArray that lays the elements out one after the other, with no offsets
encodeArray_noElementOffsets(value) ==
    LET preparedParams == prepareParams(value)
    IN [dynamic |-> TRUE,
        encoded |-> numberToHex32(Len(preparedParams)) \o ConcatEncoded(preparedParams, 1)]

\* encodeArray for a dynamic-length array (tuple[]): count word, then encodeParams
\* of the elements
encodeArray(value) ==
    LET preparedParams == prepareParams(value)
        data_ == encodeParams(preparedParams)
        length == numberToHex32(Len(preparedParams))
    IN [dynamic |-> TRUE,
        encoded |-> IF Len(preparedParams) > 0 THEN length \o data_ ELSE length]

prepareParam(param) ==
    CASE param.type = "address" -> encodeAddress(param.value)
      [] param.type = "uint256" -> encodeNumber(param.value)
      [] param.type = "bytes32" -> encodeBytes32(param.value)
      [] param.type = "bytes"   -> encodeBytes(param.value)
      [] param.type = "tuple"   -> encodeTuple(param.value)
      [] param.type = "tuple[]" -> encodeArray(param.value)

encodeAbiParameters(params) ==
    IF Len(params) = 0 THEN <<>> ELSE encodeParams(prepareParams(params))

P(type, value) == [type |-> type, value |-> value]


----------------------------------------------------------------------------
(* The UserOperation hash *)

\* packUserOpV06 with the hashes of initCode and callData in each other's place
packUserOpV06_swapped(op) ==
    encodeAbiParameters(<<
        P("address", op.sender),
        P("uint256", op.nonce),
        P("bytes32", keccak256(op.callData)),
        P("bytes32", keccak256(op.initCode)),
        P("uint256", op.callGasLimit),
        P("uint256", op.verificationGasLimit),
        P("uint256", op.preVerificationGas),
        P("uint256", op.maxFeePerGas),
        P("uint256", op.maxPriorityFeePerGas),
        P("bytes32", keccak256(op.paymasterAndData)) >>)

\* packUserOpV06 with the signature hashed along with paymasterAndData
packUserOpV06_withSignature(op) ==
    encodeAbiParameters(<<
        P("address", op.sender),
        P("uint256", op.nonce),
        P("bytes32", keccak256(op.initCode)),
        P("bytes32", keccak256(op.callData)),
        P("uint256", op.callGasLimit),
        P("uint256", op.verificationGasLimit),
        P("uint256", op.preVerificationGas),
        P("uint256", op.maxFeePerGas),
        P("uint256", op.maxPriorityFeePerGas),
        P("bytes32", keccak256(op.paymasterAndData \o op.signature)) >>)

\* packUserOpV06 with hashedInitCode where hashedCallData belongs
packUserOpV06_initCodeTwice(op) ==
    encodeAbiParameters(<<
        P("address", op.sender),
        P("uint256", op.nonce),
        P("bytes32", keccak256(op.initCode)),
        P("bytes32", keccak256(op.initCode)),
        P("uint256", op.callGasLimit),
        P("uint256", op.verificationGasLimit),
        P("uint256", op.preVerificationGas),
        P("uint256", op.maxFeePerGas),
        P("uint256", op.maxPriorityFeePerGas),
        P("bytes32", keccak256(op.paymasterAndData)) >>)

packUserOpV06(op) ==
    LET hashedInitCode == keccak256(op.initCode)
        hashedCallData == keccak256(op.callData)
        hashedPaymasterAndData == keccak256(op.paymasterAndData)
    IN encodeAbiParameters(<<
        P("address", op.sender),
        P("uint256", op.nonce),
        P("bytes32", hashedInitCode),
        P("bytes32", hashedCallData),
        P("uint256", op.callGasLimit),
        P("uint256", op.verificationGasLimit),
        P("uint256", op.preVerificationGas),
        P("uint256", op.maxFeePerGas),
        P("uint256", op.maxPriorityFeePerGas),
        P("bytes32", hashedPaymasterAndData) >>)

\* getUserOperationHashV06 with the first two parameters in the other order
getUserOperationHashV06_entryPointFirst(op, ep) ==
    keccak256(encodeAbiParameters(<<
        P("address", ep),
        P("bytes32", keccak256(packUserOpV06(op))),
        P("uint256", KakarotChainId) >>))

\* getUserOperationHashV06 with the zero address in place of entryPoint
getUserOperationHashV06_noEntryPoint(op, ep) ==
    keccak256(encodeAbiParameters(<<
        P("bytes32", keccak256(packUserOpV06(op))),
        P("address", Zeros(20)),
        P("uint256", KakarotChainId) >>))

getUserOperationHashV06(op, ep) ==
    LET encoded_ == encodeAbiParameters(<<
            P("bytes32", keccak256(packUserOpV06(op))),
            P("address", ep),
            P("uint256", KakarotChainId) >>)
    IN keccak256(encoded_)

\* What a caller who wants the digest bound to chain `chain` gets: the hasher takes
\* the operation and the EntryPoint only, the chain id has no parameter to travel in
HasherCall(op, ep, chain) == getUserOperationHashV06(op, ep)

----------------------------------------------------------------------------
(* Values *)

Bytes(s) == [i \in 1..Len(s) |-> B(s[i])]

\* a 20-byte address, told apart by n
Addr(n) == [i \in 1..20 |-> B((16 * n + i) % 256)]

Addresses == {Addr(1), Addr(2)}

ChainIds == {KakarotChainId, 1}

NoOperation ==
    [sender |-> <<>>, nonce |-> 0, initCode |-> <<>>, callData |-> <<>>,
     callGasLimit |-> 0, verificationGasLimit |-> 0, preVerificationGas |-> 0,
     maxFeePerGas |-> 0, maxPriorityFeePerGas |-> 0, paymasterAndData |-> <<>>,
     signature |-> <<>>]

NoFlag == [defined |-> FALSE, prefix0x |-> FALSE, bytes |-> <<>>, case |-> ""]

NoArgv == [entryPoint |-> NoFlag, smartAccount |-> NoFlag, factory |-> NoFlag]

\* the byte strings of at most n bytes over two byte values
ByteStrings(n) == UNION {[1..m -> {B(0), B(255)}] : m \in 0..n}

Signatures == {<<>>, signMessage(<<>>)}

GasChoices == {<<350000, 550000, 250000, 1000000000, 150000000>>, <<0, 0, 0, 0, 0>>}

HashOps ==
    {[sender |-> s, nonce |-> n, initCode |-> ic, callData |-> cd,
      callGasLimit |-> g[1], verificationGasLimit |-> g[2], preVerificationGas |-> g[3],
      maxFeePerGas |-> g[4], maxPriorityFeePerGas |-> g[5],
      paymasterAndData |-> pd, signature |-> sig] :
        s \in Addresses, n \in 0..MaxNonce, ic \in ByteStrings(MaxHashLen),
        cd \in ByteStrings(MaxHashLen), g \in GasChoices,
        pd \in {<<>>, <<B(255)>>}, sig \in Signatures}

----------------------------------------------------------------------------
(* The hasher, called on its own *)

HasherInit ==
    /\ pc = "hasher_input"
    /\ userOperation \in HashOps
    /\ entryPoint \in Addresses
    /\ targetChainId \in ChainIds
    /\ argv = NoArgv
    /\ smartAccount = <<>> /\ factory = <<>>
    /\ packed = <<>> /\ hash = <<>> /\ calldata = <<>>
    /\ stdout = <<>> /\ exit = "running" /\ error = "" /\ events = <<>>
    /\ ops = <<>> /\ beneficiary = <<>> /\ data = <<>> /\ encoded = <<>>

PackStep ==
    /\ pc = "hasher_input"
    /\ packed' = packUserOpV06(userOperation)
    /\ pc' = "packed"
    /\ UNCHANGED <<argv, entryPoint, smartAccount, factory, userOperation, hash, calldata,
                   stdout, exit, error, events, targetChainId, ops, beneficiary, data,
                   encoded>>

HashStep ==
    /\ pc = "packed"
    /\ hash' = HasherCall(userOperation, entryPoint, targetChainId)
    /\ pc' = "hashed"
    /\ UNCHANGED <<argv, entryPoint, smartAccount, factory, userOperation, packed,
                   calldata, stdout, exit, error, events, targetChainId, ops, beneficiary,
                   data, encoded>>

HasherNext == PackStep \/ HashStep

SpecHasher == HasherInit /\ [][HasherNext]_vars


----------------------------------------------------------------------------
(* Reading an encoding back *)

\* the 32-byte word that starts at byte offset off (from 0) of bytes
WordAt(bytes, off) == SubSeq(bytes, off + 1, off + 32)

IsLiteral(w) == \A i \in 1..Len(w) : w[i].k = "b"

\* the unsigned big-endian value of a word whose value is below 2^31
WordVal(w) == w[29].v * 16777216 + w[30].v * 65536 + w[31].v * 256 + w[32].v

\* w is the 32-byte big-endian encoding of n
IsUint(w, n) ==
    /\ Len(w) = 32
    /\ IsLiteral(w)
    /\ \A i \in 1..28 : w[i].v = 0
    /\ WordVal(w) = n

\* w is address a left-padded with zeros to 32 bytes
IsPaddedAddress(w, a) ==
    /\ Len(w) = 32
    /\ \A i \in 1..12 : w[i] = B(0)
    /\ SubSeq(w, 13, 32) = a

\* the input a keccak256 digest was computed from
Preimage(digest) == digest[1].pre[1]

----------------------------------------------------------------------------
(* Claims about the hasher, under SpecHasher *)

\* C1: packUserOpV06 returns exactly 320 bytes, ten 32-byte words in the order
\* sender (left-padded), nonce, hash(initCode), hash(callData), callGasLimit,
\* verificationGasLimit, preVerificationGas, maxFeePerGas, maxPriorityFeePerGas,
\* hash(paymasterAndData); there is no offset word and no length word, whatever
\* the lengths of the byte-string fields.
C1_PackedLayout ==
    pc \in {"packed", "hashed"} =>
        /\ Len(packed) = 320
        /\ IsPaddedAddress(WordAt(packed, 0), userOperation.sender)
        /\ IsUint(WordAt(packed, 32), userOperation.nonce)
        /\ WordAt(packed, 64) = keccak256(userOperation.initCode)
        /\ WordAt(packed, 96) = keccak256(userOperation.callData)
        /\ IsUint(WordAt(packed, 128), userOperation.callGasLimit)
        /\ IsUint(WordAt(packed, 160), userOperation.verificationGasLimit)
        /\ IsUint(WordAt(packed, 192), userOperation.preVerificationGas)
        /\ IsUint(WordAt(packed, 224), userOperation.maxFeePerGas)
        /\ IsUint(WordAt(packed, 256), userOperation.maxPriorityFeePerGas)
        /\ WordAt(packed, 288) = keccak256(userOperation.paymasterAndData)

C1_Witness ==
    /\ pc = "packed"
    /\ Len(userOperation.initCode) = 1
    /\ userOperation.callData = <<>>
    /\ userOperation.paymasterAndData # <<>>
    /\ userOperation.maxFeePerGas = 1000000000

\* C2: the digest does not depend on the signature: an operation that agrees with
\* the hashed one on every field but signature has, for the same EntryPoint, the
\* same digest.
C2_SignatureNotHashed ==
    pc = "hashed" =>
        \A sig \in Signatures \cup {userOperation.initCode, <<B(1)>>} :
            getUserOperationHashV06([userOperation EXCEPT !.signature = sig], entryPoint)
                = hash

C2_Witness ==
    /\ pc = "hashed"
    /\ Len(userOperation.signature) = 65
    /\ userOperation.paymasterAndData # <<>>

\* C3: the digest is hash(W1 ++ W2 ++ W3) over exactly 96 bytes: W1 is
\* hash(packUserOpV06(op)), W2 the EntryPoint left-padded with zeros to 32 bytes,
\* W3 the chain id as a 32-byte big-endian integer.
C3_DigestLayout ==
    pc = "hashed" =>
        /\ hash = keccak256(Preimage(hash))
        /\ Len(Preimage(hash)) = 96
        /\ WordAt(Preimage(hash), 0) = keccak256(packUserOpV06(userOperation))
        /\ IsPaddedAddress(WordAt(Preimage(hash), 32), entryPoint)
        /\ IsUint(WordAt(Preimage(hash), 64), KakarotChainId)

C3_Witness ==
    /\ pc = "hashed"
    /\ entryPoint = Addr(2)
    /\ userOperation.callData # <<>>

\* C4 as claimed: with the operation fixed, two distinct EntryPoints give distinct
\* digests, and so do two distinct chain ids the caller of the hasher asks for.
C4_DomainSeparation_Claimed ==
    pc = "hashed" =>
        /\ \A ep \in Addresses \ {entryPoint} :
               HasherCall(userOperation, ep, targetChainId) # hash
        /\ \A chain \in ChainIds \ {targetChainId} :
               HasherCall(userOperation, entryPoint, chain) # hash

\* C4 as amended: with the operation fixed, two distinct EntryPoints give distinct
\* digests; the chain id is no input of the hasher: whatever chain its caller
\* targets, the last word hashed is the constant kakarotChain.id.
C4_DomainSeparation ==
    pc = "hashed" =>
        /\ \A ep \in Addresses \ {entryPoint} :
               HasherCall(userOperation, ep, targetChainId) # hash
        /\ IsUint(WordAt(Preimage(hash), 64), KakarotChainId)

C4_Witness ==
    /\ pc = "hashed"
    /\ targetChainId # KakarotChainId
    /\ entryPoint = Addr(1)

\* the operations that differ from op in exactly one field other than signature
OneFieldVariants(op) ==
    {[op EXCEPT !.callData = x] : x \in ByteStrings(MaxHashLen + 1) \ {op.callData}}
    \cup {[op EXCEPT !.initCode = x] : x \in ByteStrings(MaxHashLen + 1) \ {op.initCode}}
    \cup {[op EXCEPT !.paymasterAndData = x] :
              x \in ByteStrings(MaxHashLen + 1) \ {op.paymasterAndData}}
    \cup {[op EXCEPT !.sender = x] : x \in Addresses \ {op.sender}}
    \cup {[op EXCEPT !.nonce = x] : x \in (0..(MaxNonce + 1)) \ {op.nonce}}
    \cup {[op EXCEPT !.callGasLimit = x] : x \in {0, 1, 350000} \ {op.callGasLimit}}
    \cup {[op EXCEPT !.verificationGasLimit = x] :
              x \in {0, 1, 550000} \ {op.verificationGasLimit}}
    \cup {[op EXCEPT !.preVerificationGas = x] :
              x \in {0, 1, 250000} \ {op.preVerificationGas}}
    \cup {[op EXCEPT !.maxFeePerGas = x] : x \in {0, 1, 1000000000} \ {op.maxFeePerGas}}
    \cup {[op EXCEPT !.maxPriorityFeePerGas = x] :
              x \in {0, 1, 150000000} \ {op.maxPriorityFeePerGas}}

\* C5: for a fixed EntryPoint and chain, two operations that differ in callData
\* alone (in one byte or more) have different digests; so do two that differ in
\* initCode, in paymasterAndData or in one scalar field alone.
C5_ContentSensitivity ==
    pc = "hashed" =>
        \A op2 \in OneFieldVariants(userOperation) :
            getUserOperationHashV06(op2, entryPoint) # hash

C5_Witness ==
    /\ pc = "hashed"
    /\ userOperation.callData = <<B(255)>>
    /\ userOperation.initCode = <<B(255)>>
    /\ [userOperation EXCEPT !.callData = <<B(0)>>] \in OneFieldVariants(userOperation)


----------------------------------------------------------------------------
(* encodeFunctionData for the handleOps abi *)

\* the components of the UserOperation tuple, in the abi's order
OpComponents(op) == <<
    P("address", op.sender),
    P("uint256", op.nonce),
    P("bytes", op.initCode),
    P("bytes", op.callData),
    P("uint256", op.callGasLimit),
    P("uint256", op.verificationGasLimit),
    P("uint256", op.preVerificationGas),
    P("uint256", op.maxFeePerGas),
    P("uint256", op.maxPriorityFeePerGas),
    P("bytes", op.paymasterAndData),
    P("bytes", op.signature) >>

\* the 4-byte selector of handleOps((address,uint256,bytes,bytes,uint256,uint256,
\* uint256,uint256,uint256,bytes,bytes)[],address): 0x1fad948c
HandleOpsSelector == Bytes(<<31, 173, 148, 140>>)

encodeFunctionData(opList, benef) ==
    HandleOpsSelector
    \o encodeAbiParameters(<<
           P("tuple[]", [i \in 1..Len(opList) |-> P("tuple", OpComponents(opList[i]))]),
           P("address", benef) >>)

----------------------------------------------------------------------------
(* main *)

\* a flag's text: whether it is 0x followed by hex digits, the bytes the digits
\* spell, and the case of the letters ("lower", "checksum": the EIP-55 case,
\* "mixed": some other case)
Text(bytes, case) == [defined |-> TRUE, prefix0x |-> TRUE, bytes |-> bytes, case |-> case]

EmptyString == [defined |-> TRUE, prefix0x |-> FALSE, bytes |-> <<>>, case |-> ""]

\* !argv[flag]: undefined and "" are falsy
Falsy(flag) == ~flag.defined \/ flag = EmptyString

\* viem isAddress(text, {strict: false}): 0x and 40 hex digits, in any case
isAddress(flag) == flag.prefix0x /\ Len(flag.bytes) = 20

\* viem getAddress on a text isAddress accepts: the EIP-55 form, one per 20 bytes
getAddress(flag) == flag.bytes

FlagValues(a) ==
    {NoFlag, EmptyString, Text(SubSeq(a, 1, 19), "lower"),
     Text(a, "lower"), Text(a, "checksum"), Text(a, "mixed")}

MainInit ==
    /\ pc = "checkEntryPoint"
    /\ argv \in [entryPoint : FlagValues(Addr(1)) \cup {Text(Addr(2), "checksum")},
                 smartAccount : FlagValues(Addr(3)),
                 factory : FlagValues(Addr(4))]
    /\ entryPoint = <<>> /\ smartAccount = <<>> /\ factory = <<>>
    /\ userOperation = NoOperation
    /\ packed = <<>> /\ hash = <<>> /\ calldata = <<>>
    /\ stdout = <<>> /\ exit = "running" /\ error = "" /\ events = <<>>
    /\ targetChainId = KakarotChainId
    /\ ops = <<>> /\ beneficiary = <<>> /\ data = <<>> /\ encoded = <<>>

Line(text, hex) == [text |-> text, hex |-> hex]

Event(call, op, threw) == [call |-> call, op |-> op, threw |-> threw]

\* the errors the external signer may throw
SignerErrors == {"SigningError", "InvalidPrivateKeyError"}

\* lines 172-176
CheckEntryPoint ==
    /\ pc = "checkEntryPoint"
    /\ IF Falsy(argv.entryPoint)
       THEN /\ stdout' = Append(stdout, Line("missing flag --entry-point", <<>>))
            /\ exit' = "exit0" /\ pc' = "exited"
            /\ UNCHANGED <<entryPoint, error>>
       ELSE IF ~isAddress(argv.entryPoint)
       THEN /\ exit' = "rejected" /\ error' = "InvalidAddressError" /\ pc' = "exited"
            /\ UNCHANGED <<entryPoint, stdout>>
       ELSE /\ entryPoint' = getAddress(argv.entryPoint)
            /\ pc' = "checkSmartAccount"
            /\ UNCHANGED <<stdout, exit, error>>
    /\ UNCHANGED <<argv, smartAccount, factory, userOperation, packed, hash, calldata,
                   events, targetChainId, ops, beneficiary, data, encoded>>

\* lines 178-182
CheckSmartAccount ==
    /\ pc = "checkSmartAccount"
    /\ IF Falsy(argv.smartAccount)
       THEN /\ stdout' = Append(stdout, Line("missing flag --smart-account", <<>>))
            /\ exit' = "exit0" /\ pc' = "exited"
            /\ UNCHANGED <<smartAccount, error>>
       ELSE IF ~isAddress(argv.smartAccount)
       THEN /\ exit' = "rejected" /\ error' = "InvalidAddressError" /\ pc' = "exited"
            /\ UNCHANGED <<smartAccount, stdout>>
       ELSE /\ smartAccount' = getAddress(argv.smartAccount)
            /\ pc' = "checkFactory"
            /\ UNCHANGED <<stdout, exit, error>>
    /\ UNCHANGED <<argv, entryPoint, factory, userOperation, packed, hash, calldata,
                   events, targetChainId, ops, beneficiary, data, encoded>>

\* lines 184-188
CheckFactory ==
    /\ pc = "checkFactory"
    /\ IF Falsy(argv.factory)
       THEN /\ stdout' = Append(stdout, Line("missing flag --factory", <<>>))
            /\ exit' = "exit0" /\ pc' = "exited"
            /\ UNCHANGED <<factory, error>>
       ELSE IF ~isAddress(argv.factory)
       THEN /\ exit' = "rejected" /\ error' = "InvalidAddressError" /\ pc' = "exited"
            /\ UNCHANGED <<factory, stdout>>
       ELSE /\ factory' = getAddress(argv.factory)
            /\ pc' = "construct"
            /\ UNCHANGED <<stdout, exit, error>>
    /\ UNCHANGED <<argv, entryPoint, smartAccount, userOperation, packed, hash, calldata,
                   events, targetChainId, ops, beneficiary, data, encoded>>

\* the call the initCode makes on the factory: selector 0x5fbfb9cf, the owner
\* address and a zero salt, each in a 32-byte word
CreateAccountCall ==
    Bytes(<<95, 191, 185, 207>>)
    \o Zeros(12)
    \o Bytes(<<5, 3, 243, 220, 23, 197, 68, 169, 46, 208, 174, 150, 102, 0, 12, 155,
               110, 229, 145, 18>>)
    \o Zeros(32)

\* the operation main builds for a sender and a factory
NewUserOperation(sender, fact) ==
    [sender |-> sender,
     nonce |-> 0,
     initCode |-> fact \o CreateAccountCall,
     callData |-> <<>>,
     callGasLimit |-> 350000,
     verificationGasLimit |-> 550000,
     preVerificationGas |-> 250000,
     maxFeePerGas |-> 1000000000,
     maxPriorityFeePerGas |-> 150000000,
     paymasterAndData |-> <<>>,
     signature |-> <<>>]

\* Construct with a signature already in the new operation
Construct_presigned ==
    /\ pc = "construct"
    /\ userOperation' = [NewUserOperation(smartAccount, factory)
                            EXCEPT !.signature = signMessage(<<>>)]
    /\ events' = Append(events, Event("construct", userOperation', ""))
    /\ pc' = "hash"
    /\ UNCHANGED <<argv, entryPoint, smartAccount, factory, packed, hash, calldata,
                   stdout, exit, error, targetChainId, ops, beneficiary, data, encoded>>

\* lines 190-205
Construct ==
    /\ pc = "construct"
    /\ userOperation' = NewUserOperation(smartAccount, factory)
    /\ events' = Append(events, Event("construct", userOperation', ""))
    /\ pc' = "hash"
    /\ UNCHANGED <<argv, entryPoint, smartAccount, factory, packed, hash, calldata,
                   stdout, exit, error, targetChainId, ops, beneficiary, data, encoded>>

\* line 210: the argument of signMessage is evaluated before the call
Hash ==
    /\ pc = "hash"
    /\ hash' = getUserOperationHashV06(userOperation, entryPoint)
    /\ events' = Append(events, Event("hash", userOperation, ""))
    /\ pc' = "sign"
    /\ UNCHANGED <<argv, entryPoint, smartAccount, factory, userOperation, packed,
                   calldata, stdout, exit, error, targetChainId, ops, beneficiary, data,
                   encoded>>

\* Sign with the signer's error caught: main goes on with the unsigned operation
Sign_swallowsError ==
    /\ pc = "sign"
    /\ \/ /\ userOperation' = [userOperation EXCEPT !.signature = signMessage(hash)]
          /\ events' = Append(events, Event("sign", userOperation', ""))
          /\ UNCHANGED <<exit, error>>
       \/ \E e \in SignerErrors :
            /\ events' = Append(events, Event("sign", userOperation, e))
            /\ error' = e
            /\ UNCHANGED <<userOperation, exit>>
    /\ pc' = "logOperation"
    /\ UNCHANGED <<argv, entryPoint, smartAccount, factory, packed, hash, calldata,
                   stdout, targetChainId, ops, beneficiary, data, encoded>>

\* lines 207-212: await signMessage, then the assignment to signature; a throw of
\* the signer rejects main(), which has no try/catch
Sign ==
    /\ pc = "sign"
    /\ \/ /\ userOperation' = [userOperation EXCEPT !.signature = signMessage(hash)]
          /\ events' = Append(events, Event("sign", userOperation', ""))
          /\ pc' = "logOperation"
          /\ UNCHANGED <<exit, error>>
       \/ \E e \in SignerErrors :
            /\ events' = Append(events, Event("sign", userOperation, e))
            /\ exit' = "rejected" /\ error' = e /\ pc' = "exited"
            /\ UNCHANGED userOperation
    /\ UNCHANGED <<argv, entryPoint, smartAccount, factory, packed, hash, calldata,
                   stdout, targetChainId, ops, beneficiary, data, encoded>>

\* line 214
LogOperation ==
    /\ pc = "logOperation"
    /\ stdout' = Append(stdout, Line("UserOperation:", userOperation.signature))
    /\ pc' = "encode"
    /\ UNCHANGED <<argv, entryPoint, smartAccount, factory, userOperation, packed, hash,
                   calldata, exit, error, events, targetChainId, ops, beneficiary, data,
                   encoded>>

\* lines 216-219
Encode ==
    /\ pc = "encode"
    /\ calldata' = encodeFunctionData(<<userOperation>>,
                       Bytes(<<67, 55, 4, 196, 15, 128, 203, 255, 2, 232, 111, 211, 107,
                               200, 186, 197, 227, 30, 176, 193>>))
    /\ events' = Append(events, Event("encode", userOperation, ""))
    /\ pc' = "logCalldata"
    /\ UNCHANGED <<argv, entryPoint, smartAccount, factory, userOperation, packed, hash,
                   stdout, exit, error, targetChainId, ops, beneficiary, data, encoded>>

\* line 221, and main returns
LogCalldata ==
    /\ pc = "logCalldata"
    /\ stdout' = Append(stdout, Line("HandleOps Calldata:", calldata))
    /\ exit' = "returned"
    /\ pc' = "exited"
    /\ UNCHANGED <<argv, entryPoint, smartAccount, factory, userOperation, packed, hash,
                   calldata, error, events, targetChainId, ops, beneficiary, data,
                   encoded>>

Init == MainInit

Next ==
    \/ CheckEntryPoint
    \/ CheckSmartAccount
    \/ CheckFactory
    \/ Construct
    \/ Hash
    \/ Sign
    \/ LogOperation
    \/ Encode
    \/ LogCalldata

Spec == Init /\ [][Next]_vars


----------------------------------------------------------------------------
(* Claims about main, under Spec *)

WithoutSignature(op) == [op EXCEPT !.signature = <<>>]

\* C9: in every run of main the calls come in the order construct, hash, sign,
\* encode; the hasher sees the operation with an empty signature; the signature is
\* written once, by the signing step that follows the hash; no other field changes
\* between construction and encoding; the encoder is only given an operation whose
\* signature is populated.
C9_Lifecycle ==
    /\ Len(events) <= 4
    /\ \A i \in 1..Len(events) :
           /\ events[i].call = <<"construct", "hash", "sign", "encode">>[i]
           /\ WithoutSignature(events[i].op) = WithoutSignature(events[1].op)
           /\ events[i].call \in {"construct", "hash"} => events[i].op.signature = <<>>
           /\ events[i].call = "encode" => Len(events[i].op.signature) = 65
           /\ i > 1 /\ events[i].op.signature # events[i - 1].op.signature =>
                  /\ events[i].call = "sign"
                  /\ hash # <<>>
                  /\ events[i].op.signature = signMessage(hash)
    /\ events # <<>> => userOperation = events[Len(events)].op
    /\ events = <<>> => userOperation = NoOperation
    /\ calldata # <<>> => Len(events) = 4
    /\ exit = "returned" =>
           Cardinality({i \in 2..Len(events) :
                           events[i].op.signature # events[i - 1].op.signature}) = 1

C9_Witness ==
    /\ exit = "returned"
    /\ Len(events) = 4
    /\ calldata # <<>>
    /\ Len(userOperation.signature) = 65

\* a flag main stops on: missing (undefined or empty) or no 20-byte hex string
BadFlag(flag) == Falsy(flag) \/ ~isAddress(flag)

----------------------------------------------------------------------------
(* The encoder, called on its own *)

\* a byte string of n bytes, no byte of it zero
Data(n, fill) == [i \in 1..n |-> B(((fill + i) % 255) + 1)]

BytesInputs == {Data(n, fill) : n \in 0..MaxBytesLen, fill \in {0, 100}}

FieldLens == {0, 1, 31, 32} \cup (33..MaxFieldLen)

\* the operations whose encoding is examined field by field
EncOps ==
    {[NewUserOperation(Addr(3), Addr(4)) EXCEPT
          !.initCode = Data(il, 0), !.callData = Data(cl, 100),
          !.paymasterAndData = pd, !.signature = sig] :
        il \in FieldLens, cl \in FieldLens, pd \in {<<>>, Data(20, 7)},
        sig \in Signatures}

\* the operations that fill the rest of a longer array
FillerOps ==
    {NoOperation,
     [NewUserOperation(Addr(3), Addr(4)) EXCEPT !.signature = signMessage(<<>>)]}

RECURSIVE OpLists(_)
\* the arrays of n operations: one of EncOps, then fillers
OpLists(n) ==
    IF n = 0 THEN {<<>>}
    ELSE IF n = 1 THEN {<<op>> : op \in EncOps}
    ELSE {Append(l, f) : l \in OpLists(n - 1), f \in FillerOps}
         \cup {<<f>> \o l : l \in OpLists(n - 1), f \in FillerOps}

EncoderInit ==
    /\ \/ /\ pc = "bytes_input"
          /\ data \in BytesInputs
          /\ ops = <<>>
          /\ beneficiary = <<>>
       \/ /\ pc = "call_input"
          /\ data = <<>>
          /\ ops \in UNION {OpLists(n) : n \in 0..MaxOps}
          /\ beneficiary \in {Addr(5)}
    /\ argv = NoArgv
    /\ entryPoint = <<>> /\ smartAccount = <<>> /\ factory = <<>>
    /\ userOperation = NoOperation
    /\ packed = <<>> /\ hash = <<>> /\ calldata = <<>>
    /\ stdout = <<>> /\ exit = "running" /\ error = "" /\ events = <<>>
    /\ targetChainId = KakarotChainId
    /\ encoded = <<>>

EncodeBytesStep ==
    /\ pc = "bytes_input"
    /\ encoded' = encodeBytes(data).encoded
    /\ pc' = "bytes_done"
    /\ UNCHANGED <<argv, entryPoint, smartAccount, factory, userOperation, packed, hash,
                   calldata, stdout, exit, error, events, targetChainId, ops, beneficiary,
                   data>>

EncodeCallStep ==
    /\ pc = "call_input"
    /\ calldata' = encodeFunctionData(ops, beneficiary)
    /\ pc' = "call_done"
    /\ UNCHANGED <<argv, entryPoint, smartAccount, factory, userOperation, packed, hash,
                   stdout, exit, error, events, targetChainId, ops, beneficiary, data,
                   encoded>>

EncoderNext == EncodeBytesStep \/ EncodeCallStep

SpecEncoder == EncoderInit /\ [][EncoderNext]_vars

----------------------------------------------------------------------------
(* Claims about the encoder, under SpecEncoder *)

\* the least multiple of 32 that is at least n
RoundUp32(n) == CHOOSE m \in n..(n + 31) : m % 32 = 0

\* the bytes a dynamic field of n bytes takes in a tail: length word and padded data
TailRegion(n) == 32 + RoundUp32(n)

\* the byte lengths of the four dynamic fields of an operation
DynamicLens(op) ==
    <<Len(op.initCode), Len(op.callData), Len(op.paymasterAndData), Len(op.signature)>>

TailRegions(op) ==
    TailRegion(DynamicLens(op)[1]) + TailRegion(DynamicLens(op)[2])
    + TailRegion(DynamicLens(op)[3]) + TailRegion(DynamicLens(op)[4])

\* the case of C6: one operation, initCode and callData non-empty, 65-byte signature
OneSignedOperation ==
    /\ pc = "call_done"
    /\ Len(ops) = 1
    /\ ops[1].initCode # <<>>
    /\ ops[1].callData # <<>>
    /\ Len(ops[1].signature) = 65

\* C6 as claimed: the payload of such a call is 4 + 32*2 + 32 + 32*11 bytes plus
\* the tail regions of the dynamic fields, and holds no other word.
C6_PayloadLength_Claimed ==
    OneSignedOperation =>
        Len(calldata) = 4 + 32 * 2 + 32 + 32 * 11 + TailRegions(ops[1])

\* C6 as amended: the payload also holds the 32-byte offset word of the one array
\* element, between the count word and the tuple head: its length is
\* 4 + 32*2 + 32 + 32 + 32*11 plus the tail regions (length word and padded data)
\* of the four dynamic fields.
C6_PayloadLength ==
    OneSignedOperation =>
        Len(calldata) = 4 + 32 * 2 + 32 + 32 + 32 * 11 + TailRegions(ops[1])

C6_Witness ==
    /\ OneSignedOperation
    /\ Len(ops[1].initCode) = 33
    /\ Len(ops[1].callData) = 1

\* C7: encodeBytes(data) is the 32-byte big-endian length word holding len(data),
\* then data, then zero bytes up to the next multiple of 32: 32 + 32*ceil(len/32)
\* bytes in all; for empty data it is the single zero word.
C7_DynamicBytes ==
    pc = "bytes_done" =>
        /\ Len(encoded) = 32 + 32 * ((Len(data) + 31) \div 32)
        /\ Len(encoded) = 32 + RoundUp32(Len(data))
        /\ IsUint(WordAt(encoded, 0), Len(data))
        /\ SubSeq(encoded, 33, 32 + Len(data)) = data
        /\ \A i \in (33 + Len(data))..Len(encoded) : encoded[i] = B(0)
        /\ data = <<>> => encoded = Zeros(32)

C7_Witness ==
    /\ pc = "bytes_done"
    /\ Len(data) = 33
    /\ Len(encoded) = 96

\* the encoded arguments, after the selector
Body == SubSeq(calldata, 5, Len(calldata))

\* where the array's encoding starts in Body: the first head word
ArrayOffset == WordVal(WordAt(Body, 0))

\* where the element region starts: after the count word
ElementRegion == ArrayOffset + 32

\* the offset word of element i, counted from the element region
ElementOffset(i) == WordVal(WordAt(Body, ElementRegion + 32 * (i - 1)))

\* where the tuple of element i starts in Body
TupleStart(i) == ElementRegion + ElementOffset(i)

\* the head slots (from 0) of the dynamic fields of the tuple
DynamicSlots == <<2, 3, 9, 10>>

\* the offset word of the j-th dynamic field of element i, counted from the tuple
FieldOffset(i, j) == WordVal(WordAt(Body, TupleStart(i) + 32 * DynamicSlots[j]))

\* the length word of the j-th dynamic field of element i
FieldLength(i, j) == WordVal(WordAt(Body, TupleStart(i) + FieldOffset(i, j)))

\* the values of all offset words of the payload
OffsetWords ==
    {ArrayOffset}
    \cup {ElementOffset(i) : i \in 1..Len(ops)}
    \cup {FieldOffset(i, j) : i \in 1..Len(ops), j \in 1..4}

\* the values of all length words of the payload
LengthWords == {FieldLength(i, j) : i \in 1..Len(ops), j \in 1..4}

\* C8 as claimed: every offset word and every length word of the encoding holds a
\* multiple of 32.
C8_Multiples_Claimed ==
    pc = "call_done" =>
        /\ \A v \in OffsetWords : v % 32 = 0
        /\ \A v \in LengthWords : v % 32 = 0

\* C8 as amended: every offset word holds a multiple of 32 and the encoding is a
\* whole number of 32-byte words after the selector; a length word holds the exact
\* byte count of its field, which need not be a multiple of 32 (the padding is in
\* the data that follows, not in the length).
C8_Multiples ==
    pc = "call_done" =>
        /\ (Len(calldata) - 4) % 32 = 0
        /\ ArrayOffset % 32 = 0
        /\ WordVal(WordAt(Body, ArrayOffset)) = Len(ops)
        /\ \A i \in 1..Len(ops) :
               /\ ElementOffset(i) % 32 = 0
               /\ \A j \in 1..4 :
                      /\ FieldOffset(i, j) % 32 = 0
                      /\ FieldLength(i, j) = DynamicLens(ops[i])[j]

C8_Witness ==
    /\ pc = "call_done"
    /\ Len(ops) = 2
    /\ Len(ops[1].signature) = 65
    /\ Len(ops[1].initCode) = 33
    /\ 65 \in LengthWords

====
